---- MODULE Spec2Model ----
(***************************************************************************)
(* A model of cachified-rs: the cachified() freshness decision, the        *)
(* detached background refresh it spawns, and the storage they share.      *)
(*                                                                         *)
(* Time is the value of current_time() (a Duration since the epoch) in     *)
(* abstract ticks.  A cachified call suspends at cache.get and while its   *)
(* producer runs.  What follows the producer's answer (validate, set or    *)
(* the fallback get, return) is one step: the producer answers at an       *)
(* arbitrary moment and its answer changes nothing another task can see,   *)
(* so every interleaving with the write is still a behaviour.              *)
(***************************************************************************)
EXTENDS Integers, FiniteSets, Sequences, TLC

\* ---------------------------------------------------------------- bounds
MaxTime == 3        \* the clock runs over 0..MaxTime
MaxRefresh == 2     \* background refresh tasks that may be in flight at once

\* ---------------------------------------------------------------- values
NONE == -1          \* Option::None of an Option<Duration>

Keys == {"k1", "k2"}
\* T = String; "" is the value NonEmptyStringValidator rejects.
Values == {"", "A", "B"}
Callers == {"c1", "c2"}

\* Option<Duration> a call may configure as its ttl
TtlOpts == {NONE, 0, 2}
\* Option<Duration> a call may configure as its stale-while-revalidate
SwrOpts == {NONE, 1}
Validators == {"none", "NonEmptyStringValidator"}

\* What a failing producer may hand back: any CachifiedError it built.
ProducerErrors ==
  { [kind |-> "FreshValueError", msg |-> "Test error"],
    [kind |-> "Other", msg |-> "db down"] }

\* cache.get(key) = None
NoEntry == [none |-> TRUE]

CacheMetadata(created, ttl) == [created_time |-> created, ttl |-> ttl]
CacheEntry(v, md) == [value |-> v, metadata |-> md]

\* CachifiedOptionsBuilder: every combination of the builder's setters.
CachifiedOptions(keys) ==
  [ key : keys, ttl : TtlOpts, stale_while_revalidate : SwrOpts,
    force_fresh : BOOLEAN, fallback_to_cache : BOOLEAN,
    check_value : Validators ]

VARIABLES
  now,      \* the wall clock, what current_time() returns
  store,    \* the cache: key -> entry or NoEntry
  call,     \* per caller: the cachified call in progress, if any
  task,     \* the background refreshes in flight, oldest first
  ret,      \* what the last step delivered, if it ended a call, a refresh
            \* or a purge: the Result handed back, or the refresh's write
  purge     \* the soft_purge call in progress, if any

vars == <<now, store, call, task, ret, purge>>

NoRet == [kind |-> "none"]
IdleCall == [pc |-> "idle"]
IdlePurge == [pc |-> "idle"]

\* ------------------------------------------------------- pure functions

\* is_expired, expiring an entry one tick before created_time + ttl
is_expired_early(metadata, t) ==
  IF metadata.ttl # NONE
    THEN t + 1 >= metadata.created_time + metadata.ttl
    ELSE FALSE

\* lib.rs is_expired
is_expired(metadata, t) ==
  IF metadata.ttl # NONE
    THEN t >= metadata.created_time + metadata.ttl
    ELSE FALSE

\* CacheMetadata::is_expired, expired only after created_time + ttl has passed
MetadataIsExpired_exclusive(metadata, t) ==
  IF metadata.ttl # NONE
    THEN t > metadata.created_time + metadata.ttl
    ELSE FALSE

\* metadata.rs CacheMetadata::is_expired, the method soft_purge and
\* CacheEntry::is_expired go through
MetadataIsExpired(metadata, t) ==
  IF metadata.ttl # NONE
    THEN t >= metadata.created_time + metadata.ttl
    ELSE FALSE

\* stale_until, measuring the window from created_time and not from expiry
stale_until_from_creation(metadata, swr) ==
  metadata.created_time + swr

\* lib.rs: created_time + ttl.unwrap_or(ZERO) + swr_duration
stale_until(metadata, swr) ==
  metadata.created_time
    + (IF metadata.ttl # NONE THEN metadata.ttl ELSE 0)
    + swr

\* validation.rs: NonEmptyStringValidator::check, as is_ok()
NonEmptyStringCheck(v) == v # ""

\* check_value absent, or validator.check(value).is_ok()
CheckOk(check_value, v) ==
  IF check_value = "none" THEN TRUE ELSE NonEmptyStringCheck(v)

\* The error NonEmptyStringValidator::check returns
ValidationFailure == [kind |-> "ValidationError", msg |-> "String is empty"]

\* Decide, with the end of the SWR window inclusive
Decide_window_inclusive(o, entry, t) ==
  IF entry = NoEntry
    THEN [out |-> "fresh", spawn |-> FALSE]
  ELSE IF ~is_expired(entry.metadata, t)
    THEN IF CheckOk(o.check_value, entry.value)
           THEN [out |-> "hit", spawn |-> FALSE]
           ELSE [out |-> "fresh", spawn |-> FALSE]
  ELSE IF o.stale_while_revalidate # NONE
    THEN IF t <= stale_until(entry.metadata, o.stale_while_revalidate)
           THEN IF CheckOk(o.check_value, entry.value)
                  THEN [out |-> "stale", spawn |-> TRUE]
                  ELSE [out |-> "fresh", spawn |-> TRUE]
           ELSE [out |-> "fresh", spawn |-> FALSE]
  ELSE [out |-> "fresh", spawn |-> FALSE]

\* Decide, judging expiry and window by the ttl the call configures
Decide_using_call_ttl(o, entry, t) ==
  IF entry = NoEntry
    THEN [out |-> "fresh", spawn |-> FALSE]
  ELSE IF ~is_expired(CacheMetadata(entry.metadata.created_time, o.ttl), t)
    THEN IF CheckOk(o.check_value, entry.value)
           THEN [out |-> "hit", spawn |-> FALSE]
           ELSE [out |-> "fresh", spawn |-> FALSE]
  ELSE IF o.stale_while_revalidate # NONE
    THEN IF t < stale_until(CacheMetadata(entry.metadata.created_time, o.ttl),
                            o.stale_while_revalidate)
           THEN IF CheckOk(o.check_value, entry.value)
                  THEN [out |-> "stale", spawn |-> TRUE]
                  ELSE [out |-> "fresh", spawn |-> TRUE]
           ELSE [out |-> "fresh", spawn |-> FALSE]
  ELSE [out |-> "fresh", spawn |-> FALSE]

\* Decide, validating the stale value before the refresh is spawned
Decide_validating_first(o, entry, t) ==
  IF entry = NoEntry
    THEN [out |-> "fresh", spawn |-> FALSE]
  ELSE IF ~is_expired(entry.metadata, t)
    THEN IF CheckOk(o.check_value, entry.value)
           THEN [out |-> "hit", spawn |-> FALSE]
           ELSE [out |-> "fresh", spawn |-> FALSE]
  ELSE IF o.stale_while_revalidate # NONE
    THEN IF t < stale_until(entry.metadata, o.stale_while_revalidate)
           THEN IF CheckOk(o.check_value, entry.value)
                  THEN [out |-> "stale", spawn |-> TRUE]
                  ELSE [out |-> "fresh", spawn |-> FALSE]
           ELSE [out |-> "fresh", spawn |-> FALSE]
  ELSE [out |-> "fresh", spawn |-> FALSE]

\* Decide, refreshing in the background an unexpired entry the validator
\* rejects when the call has an SWR window
Decide_refreshing_rejected(o, entry, t) ==
  IF entry = NoEntry
    THEN [out |-> "fresh", spawn |-> FALSE]
  ELSE IF ~is_expired(entry.metadata, t)
    THEN IF CheckOk(o.check_value, entry.value)
           THEN [out |-> "hit", spawn |-> FALSE]
           ELSE [out |-> "fresh",
                 spawn |-> o.stale_while_revalidate # NONE]
  ELSE IF o.stale_while_revalidate # NONE
    THEN IF t < stale_until(entry.metadata, o.stale_while_revalidate)
           THEN IF CheckOk(o.check_value, entry.value)
                  THEN [out |-> "stale", spawn |-> TRUE]
                  ELSE [out |-> "fresh", spawn |-> TRUE]
           ELSE [out |-> "fresh", spawn |-> FALSE]
  ELSE [out |-> "fresh", spawn |-> FALSE]

\* Decide, serving an unexpired entry whatever the validator says of it
Decide_serving_rejected(o, entry, t) ==
  IF entry = NoEntry
    THEN [out |-> "fresh", spawn |-> FALSE]
  ELSE IF ~is_expired(entry.metadata, t)
    THEN [out |-> "hit", spawn |-> FALSE]
  ELSE IF o.stale_while_revalidate # NONE
    THEN IF t < stale_until(entry.metadata, o.stale_while_revalidate)
           THEN IF CheckOk(o.check_value, entry.value)
                  THEN [out |-> "stale", spawn |-> TRUE]
                  ELSE [out |-> "fresh", spawn |-> TRUE]
           ELSE [out |-> "fresh", spawn |-> FALSE]
  ELSE [out |-> "fresh", spawn |-> FALSE]

\* lib.rs 143-192: what a call does with what cache.get returned.
\*   out   "hit" | "stale": return entry.value;  "fresh": go on to line 195
\*   spawn a background refresh was started on the way
Decide(o, entry, t) ==
  IF entry = NoEntry
    THEN [out |-> "fresh", spawn |-> FALSE]
  ELSE IF ~is_expired(entry.metadata, t)
    THEN IF CheckOk(o.check_value, entry.value)
           THEN [out |-> "hit", spawn |-> FALSE]
           ELSE [out |-> "fresh", spawn |-> FALSE]
  ELSE IF o.stale_while_revalidate # NONE
    THEN IF t < stale_until(entry.metadata, o.stale_while_revalidate)
           THEN IF CheckOk(o.check_value, entry.value)
                  THEN [out |-> "stale", spawn |-> TRUE]
                  ELSE [out |-> "fresh", spawn |-> TRUE]
           ELSE [out |-> "fresh", spawn |-> FALSE]
  ELSE [out |-> "fresh", spawn |-> FALSE]

\* WritesEntry, writing whenever a ttl is configured, zero included
WritesEntry_any_ttl(ttl) == ttl # NONE

\* lib.rs 203-204: the synchronous path writes only a positive ttl
WritesEntry(ttl) == ttl # NONE /\ ttl > 0

\* CacheSet, putting the entry under every key
CacheSet_all_keys(s, key, entry, ok) ==
  IF ok THEN [k \in DOMAIN s |-> entry] ELSE s

\* cache.set(key, entry): the store afterwards; a failed set changes nothing
CacheSet(s, key, entry, ok) ==
  IF ok THEN [s EXCEPT ![key] = entry] ELSE s

\* tokio::spawn of the refresh: the future get_fresh_value() returned, a
\* clone of the key and the call's ttl
Spawn(tk, o) == Append(tk, [key |-> o.key, ttl |-> o.ttl])

\* the tasks left when the i-th ends
Ended(tk, i) == [j \in 1..(Len(tk) - 1) |-> IF j < i THEN tk[j] ELSE tk[j + 1]]

\* What a call hands back: Ok(value) or Err(err).  path names the return
\* statement, calls counts the call's invocations of get_fresh_value.
Returned(c, cl, kind, path, v, e, n) ==
  [kind |-> kind, caller |-> c, key |-> cl.opts.key, path |-> path,
   value |-> v, err |-> e, calls |-> n]

NoErr == [kind |-> "none", msg |-> ""]

\* What a background refresh that ends with a write leaves behind.
Refreshed(tk, v) ==
  [kind |-> "Refreshed", key |-> tk.key, ttl |-> tk.ttl, value |-> v]

\* A background refresh that ends without a write: its producer failed, or
\* its cache.set did (let _ = ...).  Nothing is handed to anyone.
Dropped(tk, why) == [kind |-> "Dropped", key |-> tk.key, why |-> why]

\* ---------------------------------------------------------------- actions

Init ==
  /\ now = 0
  /\ store = [k \in Keys |-> NoEntry]
  /\ call = [c \in Callers |-> IdleCall]
  /\ task = <<>>
  /\ ret = NoRet
  /\ purge = IdlePurge

\* The clock advances.
Tick ==
  /\ now < MaxTime
  /\ now' = now + 1
  /\ ret' = NoRet
  /\ UNCHANGED <<purge, store, call, task>>

\* Call, consulting the cache even with force_fresh
Call_ignoring_force_fresh(c, o) ==
  /\ call[c].pc = "idle"
  /\ call' = [call EXCEPT ![c] =
                [pc |-> "get", opts |-> o, now |-> now, calls |-> 0]]
  /\ ret' = NoRet
  /\ UNCHANGED <<purge, now, store, task>>

\* cachified is entered: the options are taken apart and now is sampled.
\* With force_fresh the cache is not consulted: the producer is invoked.
Call(c, o) ==
  /\ call[c].pc = "idle"
  /\ call' = [call EXCEPT ![c] =
                [pc |-> IF o.force_fresh THEN "fresh" ELSE "get",
                 opts |-> o, now |-> now,
                 calls |-> IF o.force_fresh THEN 1 ELSE 0]]
  /\ ret' = NoRet
  /\ UNCHANGED <<purge, now, store, task>>

\* Lookup, joining the refresh it spawned before it serves the stale value
Lookup_joining_refresh(c) ==
  /\ call[c].pc = "get"
  /\ LET cl == call[c]
         o == cl.opts
         entry == store[o.key]
         d == Decide(o, entry, cl.now)
         n == cl.calls + (IF d.spawn THEN 1 ELSE 0)
     IN /\ d.spawn => Len(task) < MaxRefresh
        /\ task' = IF d.spawn THEN Spawn(task, o) ELSE task
        /\ IF d.out = "fresh"
             THEN /\ call' = [call EXCEPT ![c].pc = "fresh",
                                          ![c].calls = n + 1]
                  /\ ret' = NoRet
             ELSE IF d.out = "stale"
                    THEN /\ call' = [call EXCEPT ![c].pc = "join",
                                                 ![c].calls = n]
                         /\ ret' = NoRet
                    ELSE /\ call' = [call EXCEPT ![c] = IdleCall]
                         /\ ret' = Returned(c, cl, "Ok", d.out, entry.value,
                                            NoErr, n)
  /\ UNCHANGED <<purge, now, store>>

\* Lookup, awaiting the producer before it decides what to serve
Lookup_invoking_eagerly(c) ==
  /\ call[c].pc = "get"
  /\ LET cl == call[c]
         o == cl.opts
         entry == store[o.key]
         d == Decide(o, entry, cl.now)
         n == cl.calls + 1
     IN /\ d.spawn => Len(task) < MaxRefresh
        /\ task' = IF d.spawn THEN Spawn(task, o) ELSE task
        /\ IF d.out = "fresh"
             THEN /\ call' = [call EXCEPT ![c].pc = "fresh", ![c].calls = n]
                  /\ ret' = NoRet
             ELSE /\ call' = [call EXCEPT ![c] = IdleCall]
                  /\ ret' = Returned(c, cl, "Ok", d.out, entry.value, NoErr, n)
  /\ UNCHANGED <<purge, now, store>>

\* Lookup, spawning no refresh for a key that has one in flight
Lookup_single_flight(c) ==
  /\ call[c].pc = "get"
  /\ LET cl == call[c]
         o == cl.opts
         entry == store[o.key]
         d == Decide(o, entry, cl.now)
         spawn == d.spawn /\ \A i \in 1..Len(task) : task[i].key # o.key
         n == cl.calls + (IF spawn THEN 1 ELSE 0)
     IN /\ spawn => Len(task) < MaxRefresh
        /\ task' = IF spawn THEN Spawn(task, o) ELSE task
        /\ IF d.out = "fresh"
             THEN /\ call' = [call EXCEPT ![c].pc = "fresh",
                                          ![c].calls = n + 1]
                  /\ ret' = NoRet
             ELSE /\ call' = [call EXCEPT ![c] = IdleCall]
                  /\ ret' = Returned(c, cl, "Ok", d.out, entry.value, NoErr, n)
  /\ UNCHANGED <<purge, now, store>>

\* cache.get answers: return the stored value, spawning a refresh when it
\* is stale, or invoke the producer and wait for it.
Lookup(c) ==
  /\ call[c].pc = "get"
  /\ LET cl == call[c]
         o == cl.opts
         entry == store[o.key]
         d == Decide(o, entry, cl.now)
         n == cl.calls + (IF d.spawn THEN 1 ELSE 0)
     IN /\ d.spawn => Len(task) < MaxRefresh
        /\ task' = IF d.spawn THEN Spawn(task, o) ELSE task
        /\ IF d.out = "fresh"
             THEN /\ call' = [call EXCEPT ![c].pc = "fresh",
                                          ![c].calls = n + 1]
                  /\ ret' = NoRet
             ELSE /\ call' = [call EXCEPT ![c] = IdleCall]
                  /\ ret' = Returned(c, cl, "Ok", d.out, entry.value, NoErr, n)
  /\ UNCHANGED <<purge, now, store>>

\* FreshOk, caching the produced value before validating it
FreshOk_caching_unvalidated(c, v, setOk) ==
  /\ call[c].pc = "fresh"
  /\ LET cl == call[c]
         o == cl.opts
     IN /\ ret' = IF ~CheckOk(o.check_value, v)
                    THEN Returned(c, cl, "Err", "invalid", v,
                                  ValidationFailure, cl.calls)
                    ELSE Returned(c, cl, "Ok", "fresh", v, NoErr, cl.calls)
        /\ store' =
             IF WritesEntry(o.ttl)
               THEN CacheSet(store, o.key,
                             CacheEntry(v, CacheMetadata(cl.now, o.ttl)),
                             setOk)
               ELSE store
  /\ call' = [call EXCEPT ![c] = IdleCall]
  /\ UNCHANGED <<purge, now, task>>

\* FreshOk, stamping the entry with the time of the write and not with the
\* now of call entry
FreshOk_stamped_at_write(c, v, setOk) ==
  /\ call[c].pc = "fresh"
  /\ LET cl == call[c]
         o == cl.opts
     IN IF ~CheckOk(o.check_value, v)
          THEN /\ ret' = Returned(c, cl, "Err", "invalid", v,
                                  ValidationFailure, cl.calls)
               /\ store' = store
          ELSE /\ ret' = Returned(c, cl, "Ok", "fresh", v, NoErr, cl.calls)
               /\ store' =
                    IF WritesEntry(o.ttl)
                      THEN CacheSet(store, o.key,
                                    CacheEntry(v, CacheMetadata(now, o.ttl)),
                                    setOk)
                      ELSE store
  /\ call' = [call EXCEPT ![c] = IdleCall]
  /\ UNCHANGED <<purge, now, task>>

\* FreshOk, leaving alone an entry written since the call read storage
FreshOk_first_writer_wins(c, v, setOk) ==
  /\ call[c].pc = "fresh"
  /\ LET cl == call[c]
         o == cl.opts
     IN IF ~CheckOk(o.check_value, v)
          THEN /\ ret' = Returned(c, cl, "Err", "invalid", v,
                                  ValidationFailure, cl.calls)
               /\ store' = store
          ELSE /\ ret' = Returned(c, cl, "Ok", "fresh", v, NoErr, cl.calls)
               /\ store' =
                    IF /\ WritesEntry(o.ttl)
                       /\ \/ store[o.key] = NoEntry
                          \/ is_expired(store[o.key].metadata, cl.now)
                      THEN CacheSet(store, o.key,
                                    CacheEntry(v, CacheMetadata(cl.now, o.ttl)),
                                    setOk)
                      ELSE store
  /\ call' = [call EXCEPT ![c] = IdleCall]
  /\ UNCHANGED <<purge, now, task>>

\* FreshOk, asking the producer again for a value the validator rejects
FreshOk_refetching_invalid(c, v, setOk) ==
  /\ call[c].pc = "fresh"
  /\ LET cl == call[c]
         o == cl.opts
     IN IF ~CheckOk(o.check_value, v)
          THEN IF cl.calls < 3
                 THEN /\ call' = [call EXCEPT ![c].calls = cl.calls + 1]
                      /\ ret' = NoRet
                      /\ store' = store
                 ELSE /\ call' = [call EXCEPT ![c] = IdleCall]
                      /\ ret' = Returned(c, cl, "Err", "invalid", v,
                                         ValidationFailure, cl.calls)
                      /\ store' = store
          ELSE /\ call' = [call EXCEPT ![c] = IdleCall]
               /\ ret' = Returned(c, cl, "Ok", "fresh", v, NoErr, cl.calls)
               /\ store' =
                    IF WritesEntry(o.ttl)
                      THEN CacheSet(store, o.key,
                                    CacheEntry(v, CacheMetadata(cl.now, o.ttl)),
                                    setOk)
                      ELSE store
  /\ UNCHANGED <<purge, now, task>>

\* FreshOk, handing a failure of cache.set to the caller (set(..).await?)
FreshOk_failing_on_set_error(c, v, setOk) ==
  /\ call[c].pc = "fresh"
  /\ LET cl == call[c]
         o == cl.opts
     IN IF ~CheckOk(o.check_value, v)
          THEN /\ ret' = Returned(c, cl, "Err", "invalid", v,
                                  ValidationFailure, cl.calls)
               /\ store' = store
          ELSE /\ ret' = IF WritesEntry(o.ttl) /\ ~setOk
                           THEN Returned(c, cl, "Err", "failed", v,
                                         [kind |-> "CacheError",
                                          msg |-> "set failed"], cl.calls)
                           ELSE Returned(c, cl, "Ok", "fresh", v, NoErr,
                                         cl.calls)
               /\ store' =
                    IF WritesEntry(o.ttl)
                      THEN CacheSet(store, o.key,
                                    CacheEntry(v, CacheMetadata(cl.now, o.ttl)),
                                    setOk)
                      ELSE store
  /\ call' = [call EXCEPT ![c] = IdleCall]
  /\ UNCHANGED <<purge, now, task>>

\* The synchronously awaited producer answers Ok(v): validate, cache, return.
FreshOk(c, v, setOk) ==
  /\ call[c].pc = "fresh"
  /\ LET cl == call[c]
         o == cl.opts
     IN IF ~CheckOk(o.check_value, v)
          THEN /\ ret' = Returned(c, cl, "Err", "invalid", v,
                                  ValidationFailure, cl.calls)
               /\ store' = store
          ELSE /\ ret' = Returned(c, cl, "Ok", "fresh", v, NoErr, cl.calls)
               /\ store' =
                    IF WritesEntry(o.ttl)
                      THEN CacheSet(store, o.key,
                                    CacheEntry(v, CacheMetadata(cl.now, o.ttl)),
                                    setOk)
                      ELSE store
  /\ call' = [call EXCEPT ![c] = IdleCall]
  /\ UNCHANGED <<purge, now, task>>

\* FreshErr, falling back to the stored entry without validating it
FreshErr_fallback_unvalidated(c, e) ==
  /\ call[c].pc = "fresh"
  /\ LET cl == call[c]
         o == cl.opts
         entry == store[o.key]
     IN ret' =
          IF o.fallback_to_cache /\ entry # NoEntry
            THEN Returned(c, cl, "Ok", "fallback", entry.value, NoErr, cl.calls)
            ELSE Returned(c, cl, "Err", "failed", "", e, cl.calls)
  /\ call' = [call EXCEPT ![c] = IdleCall]
  /\ UNCHANGED <<purge, now, store, task>>

\* FreshErr, dropping an error no fallback has masked
FreshErr_ending_silently(c, e) ==
  /\ call[c].pc = "fresh"
  /\ LET cl == call[c]
         o == cl.opts
         entry == store[o.key]
     IN ret' =
          IF /\ o.fallback_to_cache
             /\ entry # NoEntry
             /\ CheckOk(o.check_value, entry.value)
            THEN Returned(c, cl, "Ok", "fallback", entry.value, NoErr, cl.calls)
            ELSE NoRet
  /\ call' = [call EXCEPT ![c] = IdleCall]
  /\ UNCHANGED <<purge, now, store, task>>

\* FreshErr, falling back only on an entry that has not expired
FreshErr_unexpired_only(c, e) ==
  /\ call[c].pc = "fresh"
  /\ LET cl == call[c]
         o == cl.opts
         entry == store[o.key]
     IN ret' =
          IF /\ o.fallback_to_cache
             /\ entry # NoEntry
             /\ ~is_expired(entry.metadata, cl.now)
             /\ CheckOk(o.check_value, entry.value)
            THEN Returned(c, cl, "Ok", "fallback", entry.value, NoErr, cl.calls)
            ELSE Returned(c, cl, "Err", "failed", "", e, cl.calls)
  /\ call' = [call EXCEPT ![c] = IdleCall]
  /\ UNCHANGED <<purge, now, store, task>>

\* FreshErr, wrapping whatever the producer returned into a FreshValueError
FreshErr_wrapping(c, e) ==
  /\ call[c].pc = "fresh"
  /\ LET cl == call[c]
         o == cl.opts
         entry == store[o.key]
     IN ret' =
          IF /\ o.fallback_to_cache
             /\ entry # NoEntry
             /\ CheckOk(o.check_value, entry.value)
            THEN Returned(c, cl, "Ok", "fallback", entry.value, NoErr, cl.calls)
            ELSE Returned(c, cl, "Err", "failed", "",
                          [kind |-> "FreshValueError", msg |-> e.msg], cl.calls)
  /\ call' = [call EXCEPT ![c] = IdleCall]
  /\ UNCHANGED <<purge, now, store, task>>

\* The synchronously awaited producer answers Err(e): fall back or fail.
FreshErr(c, e) ==
  /\ call[c].pc = "fresh"
  /\ LET cl == call[c]
         o == cl.opts
         entry == store[o.key]
     IN ret' =
          IF /\ o.fallback_to_cache
             /\ entry # NoEntry
             /\ CheckOk(o.check_value, entry.value)
            THEN Returned(c, cl, "Ok", "fallback", entry.value, NoErr, cl.calls)
            ELSE Returned(c, cl, "Err", "failed", "", e, cl.calls)
  /\ call' = [call EXCEPT ![c] = IdleCall]
  /\ UNCHANGED <<purge, now, store, task>>

\* RefreshOk, writing under the rule of the synchronous path: ttl > 0 only
RefreshOk_skipping_no_ttl(i, v, setOk) ==
  /\ i \in 1..Len(task)
  /\ store' = IF WritesEntry(task[i].ttl)
                THEN CacheSet(store, task[i].key,
                              CacheEntry(v, CacheMetadata(now, task[i].ttl)),
                              setOk)
                ELSE store
  /\ task' = Ended(task, i)
  /\ ret' = IF setOk THEN Refreshed(task[i], v)
                     ELSE Dropped(task[i], "set")
  /\ UNCHANGED <<purge, now, call>>

\* RefreshOk, leaving alone an entry that is not expired at the write
RefreshOk_keeping_newer(i, v, setOk) ==
  /\ i \in 1..Len(task)
  /\ store' = IF /\ store[task[i].key] # NoEntry
                 /\ ~is_expired(store[task[i].key].metadata, now)
                THEN store
                ELSE CacheSet(store, task[i].key,
                              CacheEntry(v, CacheMetadata(now, task[i].ttl)),
                              setOk)
  /\ task' = Ended(task, i)
  /\ ret' = IF setOk THEN Refreshed(task[i], v)
                     ELSE Dropped(task[i], "set")
  /\ UNCHANGED <<purge, now, call>>

\* RefreshOk, keeping an entry that is already stored
RefreshOk_keeping_stored(i, v, setOk) ==
  /\ i \in 1..Len(task)
  /\ store' = IF store[task[i].key] = NoEntry
                THEN CacheSet(store, task[i].key,
                              CacheEntry(v, CacheMetadata(now, task[i].ttl)),
                              setOk)
                ELSE store
  /\ task' = Ended(task, i)
  /\ ret' = IF setOk THEN Refreshed(task[i], v)
                     ELSE Dropped(task[i], "set")
  /\ UNCHANGED <<purge, now, call>>

\* The producer of the i-th background refresh answers Ok(v): the entry is
\* written with the time of the answer and the spawning call's ttl,
\* unvalidated.
RefreshOk(i, v, setOk) ==
  /\ i \in 1..Len(task)
  /\ store' = CacheSet(store, task[i].key,
                       CacheEntry(v, CacheMetadata(now, task[i].ttl)), setOk)
  /\ task' = Ended(task, i)
  /\ ret' = IF setOk THEN Refreshed(task[i], v)
                     ELSE Dropped(task[i], "set")
  /\ UNCHANGED <<purge, now, call>>

\* RefreshErr, removing the entry the refresh could not renew
RefreshErr_removing_entry(i) ==
  /\ i \in 1..Len(task)
  /\ store' = [store EXCEPT ![task[i].key] = NoEntry]
  /\ task' = Ended(task, i)
  /\ ret' = Dropped(task[i], "producer")
  /\ UNCHANGED <<purge, now, call>>

\* The producer of the i-th background refresh answers Err: dropped silently.
RefreshErr(i) ==
  /\ i \in 1..Len(task)
  /\ task' = Ended(task, i)
  /\ ret' = Dropped(task[i], "producer")
  /\ UNCHANGED <<purge, now, store, call>>

\* ------------------------------------------------------------ soft_purge

\* SoftPurgeOptions: new(key), with or without stale_while_revalidate
SoftPurgeOptions(keys) == [key : keys, stale_while_revalidate : SwrOpts]

\* SoftPurged, zeroing only a ttl that is there (if let Some(_) = ttl)
SoftPurged_keeping_no_ttl(entry, t) ==
  IF entry.metadata.ttl = NONE
    THEN entry
    ELSE CacheEntry(entry.value, CacheMetadata(t, 0))

\* SoftPurged, never moving created_time
SoftPurged_keeping_created_time(entry, t) ==
  CacheEntry(entry.value, [entry.metadata EXCEPT !.ttl = 0])

\* SoftPurged, testing expiry under the old ttl, before ttl is set to zero
SoftPurged_testing_old_ttl(entry, t) ==
  CacheEntry(entry.value,
             IF MetadataIsExpired(entry.metadata, t)
               THEN CacheMetadata(t, 0)
               ELSE [entry.metadata EXCEPT !.ttl = 0])

\* lib.rs 340-347: the entry soft_purge writes back for the one it read at
\* time t.  ttl is set to zero first; the expiry test that follows reads the
\* metadata it has just changed.
SoftPurged(entry, t) ==
  LET zeroed == [entry.metadata EXCEPT !.ttl = 0]
  IN CacheEntry(entry.value,
                IF MetadataIsExpired(zeroed, t)
                  THEN [zeroed EXCEPT !.created_time = t]
                  ELSE zeroed)

\* What soft_purge hands back: Ok(()) or the storage error, with the entry
\* it wrote (NoEntry when it wrote none) and the now it sampled.
PurgeReturned(key, t, result, entry) ==
  [kind |-> "Purged", key |-> key, now |-> t, result |-> result,
   entry |-> entry]

\* PurgeGet, storing the purge's stale_while_revalidate as the time the
\* entry has left
PurgeGet_applying_swr(po) ==
  /\ purge.pc = "idle"
  /\ IF store[po.key] = NoEntry
       THEN /\ purge' = IdlePurge
            /\ ret' = PurgeReturned(po.key, now, "Ok", NoEntry)
       ELSE /\ purge' = [pc |-> "set", key |-> po.key, now |-> now,
                         entry |->
                           IF po.stale_while_revalidate = NONE
                             THEN SoftPurged(store[po.key], now)
                             ELSE CacheEntry(store[po.key].value,
                                    CacheMetadata(now,
                                      po.stale_while_revalidate))]
            /\ ret' = NoRet
  /\ UNCHANGED <<now, store, call, task>>

\* PurgeGet, refusing a key that is not stored
PurgeGet_failing_on_absent(po) ==
  /\ purge.pc = "idle"
  /\ IF store[po.key] = NoEntry
       THEN /\ purge' = IdlePurge
            /\ ret' = PurgeReturned(po.key, now, "Err", NoEntry)
       ELSE /\ purge' = [pc |-> "set", key |-> po.key, now |-> now,
                         entry |-> SoftPurged(store[po.key], now)]
            /\ ret' = NoRet
  /\ UNCHANGED <<now, store, call, task>>

\* soft_purge is entered, its options taken apart (stale_while_revalidate is
\* bound to _ and dropped) and cache.get answers.  Nothing stored: Ok(()) at
\* once.  Otherwise now is sampled, the entry rewritten and cache.set awaited.
PurgeGet(po) ==
  /\ purge.pc = "idle"
  /\ IF store[po.key] = NoEntry
       THEN /\ purge' = IdlePurge
            /\ ret' = PurgeReturned(po.key, now, "Ok", NoEntry)
       ELSE /\ purge' = [pc |-> "set", key |-> po.key, now |-> now,
                         entry |-> SoftPurged(store[po.key], now)]
            /\ ret' = NoRet
  /\ UNCHANGED <<now, store, call, task>>

\* PurgeSet, removing the entry instead of writing it back (a hard purge)
PurgeSet_removing(setOk) ==
  /\ purge.pc = "set"
  /\ store' = IF setOk THEN [store EXCEPT ![purge.key] = NoEntry] ELSE store
  /\ ret' = PurgeReturned(purge.key, purge.now,
                          IF setOk THEN "Ok" ELSE "Err",
                          IF setOk THEN purge.entry ELSE NoEntry)
  /\ purge' = IdlePurge
  /\ UNCHANGED <<now, call, task>>

\* PurgeSet, writing only if the key still holds the value that was read
PurgeSet_keeping_newer(setOk) ==
  /\ purge.pc = "set"
  /\ store' = IF /\ store[purge.key] # NoEntry
                 /\ store[purge.key].value = purge.entry.value
                THEN CacheSet(store, purge.key, purge.entry, setOk)
                ELSE store
  /\ ret' = PurgeReturned(purge.key, purge.now,
                          IF setOk THEN "Ok" ELSE "Err",
                          IF setOk THEN purge.entry ELSE NoEntry)
  /\ purge' = IdlePurge
  /\ UNCHANGED <<now, call, task>>

\* PurgeSet, ignoring the Result of cache.set (let _ = ...)
PurgeSet_swallowing(setOk) ==
  /\ purge.pc = "set"
  /\ store' = CacheSet(store, purge.key, purge.entry, setOk)
  /\ ret' = PurgeReturned(purge.key, purge.now, "Ok",
                          IF setOk THEN purge.entry ELSE NoEntry)
  /\ purge' = IdlePurge
  /\ UNCHANGED <<now, call, task>>

\* cache.set answers: Ok(()) after the write, or the storage error of a set
\* that failed, handed to the caller by the ? operator.
PurgeSet(setOk) ==
  /\ purge.pc = "set"
  /\ store' = CacheSet(store, purge.key, purge.entry, setOk)
  /\ ret' = PurgeReturned(purge.key, purge.now,
                          IF setOk THEN "Ok" ELSE "Err",
                          IF setOk THEN purge.entry ELSE NoEntry)
  /\ purge' = IdlePurge
  /\ UNCHANGED <<now, call, task>>

\* ---------------------------------------------------------- specification
\* One caller at a time on one key over MokaCache, whose set never fails,
\* with background refreshes running alongside.
Cachified == \E o \in CachifiedOptions({"k1"}) : Call("c1", o)
CacheGet == Lookup("c1")
ProducerOk == \E v \in Values : FreshOk("c1", v, TRUE)
ProducerErr == \E e \in ProducerErrors : FreshErr("c1", e)
RefreshDone == \E i \in 1..MaxRefresh, v \in Values : RefreshOk(i, v, TRUE)
RefreshFailed == \E i \in 1..MaxRefresh : RefreshErr(i)

Next ==
  \/ Tick
  \/ Cachified
  \/ CacheGet
  \/ ProducerOk
  \/ ProducerErr
  \/ RefreshDone
  \/ RefreshFailed

Spec == Init /\ [][Next]_vars

\* The refreshes whose producer succeeds: calls that may serve stale and
\* spawn, every refresh producer answering Ok, and the runtime polling the
\* spawned tasks, so that the oldest task in flight gets to run.
LiveOptions ==
  {o \in CachifiedOptions({"k1"}) :
     ~o.force_fresh /\ ~o.fallback_to_cache /\ o.check_value = "none"}
CachifiedLive == \E o \in LiveOptions : Call("c1", o)
RefreshOldestDone == \E v \in Values : RefreshOk(1, v, TRUE)

NextLive ==
  \/ Tick
  \/ CachifiedLive
  \/ CacheGet
  \/ ProducerOk
  \/ RefreshDone

SpecLive == Init /\ [][NextLive]_vars /\ WF_vars(RefreshOldestDone)

TypeOK ==
  /\ now \in 0..MaxTime
  /\ \A k \in Keys :
       \/ store[k] = NoEntry
       \/ /\ store[k].value \in Values
          /\ store[k].metadata.created_time \in 0..MaxTime
          /\ store[k].metadata.ttl \in TtlOpts
  /\ \A c \in Callers : call[c].pc \in {"idle", "get", "fresh"}
  /\ Len(task) <= MaxRefresh
  /\ purge.pc \in {"idle", "set"}

\* soft_purge beside one caller on one key over MokaCache: purges of the
\* key at any moment, calls that may serve stale and spawn, producers that
\* answer Ok.
PurgeCallOptions ==
  [ key : {"k1"}, ttl : {NONE, 2}, stale_while_revalidate : SwrOpts,
    force_fresh : {FALSE}, fallback_to_cache : {FALSE},
    check_value : {"none"} ]
\* with no validator configured the empty string is a value like any other
PlainValues == {"A", "B"}
CachifiedPurged == \E o \in PurgeCallOptions : Call("c1", o)
ProducedPlain == \E v \in PlainValues : FreshOk("c1", v, TRUE)
RefreshedPlain ==
  \E i \in 1..MaxRefresh, v \in PlainValues : RefreshOk(i, v, TRUE)
SoftPurge == \E po \in SoftPurgeOptions({"k1"}) : PurgeGet(po)
PurgeWrite == PurgeSet(TRUE)

NextPurge ==
  \/ Tick
  \/ CachifiedPurged
  \/ CacheGet
  \/ ProducedPlain
  \/ RefreshedPlain
  \/ SoftPurge
  \/ PurgeWrite

SpecPurge == Init /\ [][NextPurge]_vars

\* Callers sharing one key that was stored without ttl (cache.set of an
\* entry that never expires, or a refresh of a call without ttl) and is soft
\* purged while it is fresh.  The calls configure no ttl and an SWR window:
\* nothing expires but through a purge, so every refresh in flight was
\* dispatched on a purged entry that no refresh has replaced yet.
HerdOptions ==
  [ key : {"k1"}, ttl : {NONE}, stale_while_revalidate : {1},
    force_fresh : {FALSE}, fallback_to_cache : {FALSE},
    check_value : Validators ]

InitHerd ==
  /\ now = 0
  /\ store = [k \in Keys |->
                IF k = "k1" THEN CacheEntry("A", CacheMetadata(0, NONE))
                            ELSE NoEntry]
  /\ call = [c \in Callers |-> IdleCall]
  /\ task = <<>>
  /\ ret = NoRet
  /\ purge = IdlePurge

CachifiedHerd == \E c \in Callers, o \in HerdOptions : Call(c, o)
HerdGet == \E c \in Callers : Lookup(c)
HerdProduced == \E c \in Callers, v \in PlainValues : FreshOk(c, v, TRUE)
PurgeFresh ==
  /\ store["k1"] # NoEntry
  /\ store["k1"].metadata.ttl = NONE
  /\ PurgeGet([key |-> "k1", stale_while_revalidate |-> NONE])

NextHerd ==
  \/ Tick
  \/ CachifiedHerd
  \/ HerdGet
  \/ HerdProduced
  \/ RefreshedPlain
  \/ PurgeFresh
  \/ PurgeWrite

SpecHerd == InitHerd /\ [][NextHerd]_vars

\* One caller over two keys, each key with a producer of its own value
\* ("value1" under "key1", "value2" under "key2"): calls, their refreshes
\* and purges of either key.
KeyValue == [k \in Keys |-> IF k = "k1" THEN "A" ELSE "B"]
KeysOptions ==
  [ key : Keys, ttl : {2}, stale_while_revalidate : SwrOpts,
    force_fresh : {FALSE}, fallback_to_cache : {FALSE},
    check_value : {"none"} ]
CachifiedKeys == \E o \in KeysOptions : Call("c1", o)
ProducedKeyed ==
  /\ call["c1"].pc = "fresh"
  /\ FreshOk("c1", KeyValue[call["c1"].opts.key], TRUE)
RefreshedKeyed ==
  \E i \in 1..Len(task) : RefreshOk(i, KeyValue[task[i].key], TRUE)
SoftPurgeKeys == \E po \in SoftPurgeOptions(Keys) : PurgeGet(po)

NextKeys ==
  \/ Tick
  \/ CachifiedKeys
  \/ CacheGet
  \/ ProducedKeyed
  \/ RefreshedKeyed
  \/ SoftPurgeKeys
  \/ PurgeWrite

SpecKeys == Init /\ [][NextKeys]_vars

\* The synchronous path alone: calls that configure no SWR window, so that
\* no refresh is ever dispatched.
SyncOptions ==
  {o \in CachifiedOptions({"k1"}) : o.stale_while_revalidate = NONE}
CachifiedSync == \E o \in SyncOptions : Call("c1", o)

NextSync ==
  \/ Tick
  \/ CachifiedSync
  \/ CacheGet
  \/ ProducerOk
  \/ ProducerErr

SpecSync == Init /\ [][NextSync]_vars

\* A storage whose set may fail (RedisCache: serialisation and connection
\* errors come back through ?).  Every call configures a positive ttl, so
\* every value produced synchronously is handed to cache.set.
StorageOptions ==
  [ key : {"k1"}, ttl : {2}, stale_while_revalidate : SwrOpts,
    force_fresh : {FALSE}, fallback_to_cache : {FALSE},
    check_value : {"none"} ]
CachifiedStored == \E o \in StorageOptions : Call("c1", o)
ProducedStored ==
  \E v \in PlainValues, setOk \in BOOLEAN : FreshOk("c1", v, setOk)
RefreshedStored ==
  \E i \in 1..MaxRefresh, v \in PlainValues, setOk \in BOOLEAN :
    RefreshOk(i, v, setOk)
PurgeStored == \E setOk \in BOOLEAN : PurgeSet(setOk)

NextStorage ==
  \/ Tick
  \/ CachifiedStored
  \/ CacheGet
  \/ ProducedStored
  \/ RefreshedStored
  \/ SoftPurge
  \/ PurgeStored

SpecStorage == Init /\ [][NextStorage]_vars

\* The two expiry predicates as pure functions of a metadata and an instant.
\* Duration is a bounded unsigned quantity whose + panics on overflow;
\* DurationMax stands for Duration::MAX, out of the clock's reach.
DurationMax == MaxTime + MaxTime
ExpiryTtls == {NONE} \cup 0..MaxTime \cup {DurationMax}

AddOverflows(metadata) ==
  /\ metadata.ttl # NONE
  /\ metadata.created_time + metadata.ttl > DurationMax

Answer(b) == IF b THEN "true" ELSE "false"

InitExpiry ==
  /\ now = 0
  /\ \E created \in 0..MaxTime, ttl \in ExpiryTtls :
       store = [k \in Keys |->
                  IF k = "k1"
                    THEN CacheEntry("A", CacheMetadata(created, ttl))
                    ELSE NoEntry]
  /\ call = [c \in Callers |-> IdleCall]
  /\ task = <<>>
  /\ ret = NoRet
  /\ purge = IdlePurge

\* Both predicates are asked about the stored metadata at the current time.
CheckExpiry ==
  /\ ret.kind = "none"
  /\ LET metadata == store["k1"].metadata
     IN ret' = [kind |-> "Expiry", metadata |-> metadata, now |-> now,
                free |-> IF AddOverflows(metadata) THEN "panic"
                         ELSE Answer(is_expired(metadata, now)),
                method |-> IF AddOverflows(metadata) THEN "panic"
                           ELSE Answer(MetadataIsExpired(metadata, now))]
  /\ UNCHANGED <<now, store, call, task, purge>>

NextExpiry ==
  \/ Tick
  \/ CheckExpiry

SpecExpiry == InitExpiry /\ [][NextExpiry]_vars

\* Calls of every configuration on one key, none of their background
\* refreshes ever completing.  A call that could dispatch a refresh is
\* entered only while fewer than MaxRefresh are in flight.  The runtime
\* polls an awaited future, so the storage read completes; the producer a
\* call awaits is taken to answer.
CachifiedBounded ==
  \E o \in CachifiedOptions({"k1"}) :
    /\ o.stale_while_revalidate # NONE => Len(task) < MaxRefresh
    /\ Call("c1", o)

NextOutcome ==
  \/ Tick
  \/ CachifiedBounded
  \/ CacheGet
  \/ ProducerOk
  \/ ProducerErr

SpecOutcome ==
  /\ Init /\ [][NextOutcome]_vars
  /\ WF_vars(CacheGet)
  /\ WF_vars(ProducerOk \/ ProducerErr)

\* Two keys, and background refreshes that hang: a refresh once dispatched
\* stays in flight for ever.  Calls go to either key and soft_purge to k2, so
\* that each meets hanging refreshes of its own key and of the other.  The
\* storage operations a call or a purge
\* awaits complete, and so does the producer a call awaits.
CachifiedHang ==
  \E o \in KeysOptions :
    /\ o.stale_while_revalidate # NONE => Len(task) < MaxRefresh
    /\ Call("c1", o)

SoftPurgeHang ==
  PurgeGet([key |-> "k2", stale_while_revalidate |-> NONE])

NextHang ==
  \/ Tick
  \/ CachifiedHang
  \/ CacheGet
  \/ ProducedKeyed
  \/ SoftPurgeHang
  \/ PurgeWrite

SpecHang ==
  /\ Init /\ [][NextHang]_vars
  /\ WF_vars(CacheGet)
  /\ WF_vars(ProducedKeyed)
  /\ WF_vars(PurgeWrite)

\* Calls with and without a validator over entries the validator may
\* reject: every call configures ttl 2, the SWR window is set or not.
RejectOptions ==
  [ key : {"k1"}, ttl : {2}, stale_while_revalidate : SwrOpts,
    force_fresh : {FALSE}, fallback_to_cache : {FALSE},
    check_value : Validators ]
CachifiedRejecting == \E o \in RejectOptions : Call("c1", o)

NextRejected ==
  \/ Tick
  \/ CachifiedRejecting
  \/ CacheGet
  \/ ProducerOk
  \/ ProducerErr
  \/ RefreshDone
  \/ RefreshFailed

SpecRejected == Init /\ [][NextRejected]_vars

\* Two callers on one key, synchronous path only.  Each caller's producer
\* answers with a value of its own, which tells the writers apart.
RaceOptions ==
  [ key : {"k1"}, ttl : {2}, stale_while_revalidate : {NONE},
    force_fresh : {FALSE}, fallback_to_cache : {FALSE},
    check_value : {"none"} ]
CallerValue == [c \in Callers |-> IF c = "c1" THEN "A" ELSE "B"]
CachifiedRace == \E c \in Callers, o \in RaceOptions : Call(c, o)
ProducedRace == \E c \in Callers : FreshOk(c, CallerValue[c], TRUE)

NextRace ==
  \/ Tick
  \/ CachifiedRace
  \/ HerdGet
  \/ ProducedRace

SpecRace == Init /\ [][NextRace]_vars

\* Every call configures the NonEmptyStringValidator; the empty string gets
\* into storage through background refreshes, which write unvalidated.
ValidatedOptions ==
  {o \in CachifiedOptions({"k1"}) : o.check_value = "NonEmptyStringValidator"}
CachifiedValidated == \E o \in ValidatedOptions : Call("c1", o)

NextValidated ==
  \/ Tick
  \/ CachifiedValidated
  \/ CacheGet
  \/ ProducerOk
  \/ ProducerErr
  \/ RefreshDone

SpecValidated == Init /\ [][NextValidated]_vars

\* ------------------------------------------------------------ properties
\* The words of the claims, stated apart from the model's operators.

\* the entry is not expired at time t: t < created_time + ttl, or no ttl
Unexpired(e, t) ==
  e.metadata.ttl = NONE \/ t < e.metadata.created_time + e.metadata.ttl

\* the entry is expired at time t
Expired(e, t) ==
  e.metadata.ttl # NONE /\ t >= e.metadata.created_time + e.metadata.ttl

\* created_time + (stored ttl, or 0 if none) + swr
WindowEnd(e, swr) ==
  e.metadata.created_time
    + (IF e.metadata.ttl = NONE THEN 0 ELSE e.metadata.ttl) + swr

\* the validator is absent or accepts v
Accepts(o, v) == o.check_value = "none" \/ v # ""

\* the step is caller c's cache lookup and what it decides
Looked(c) == call[c].pc = "get" /\ call'[c].pc # "get"

\* the step is the answer of the producer caller c waits for
Answered(c) == call[c].pc = "fresh" /\ call'[c].pc # "fresh"

\* the step neither started nor ended a background refresh
NoRefreshDispatched == task' = task

\* the step started exactly one background refresh, for key k with ttl d
OneRefreshDispatched(k, d) == task' = Append(task, [key |-> k, ttl |-> d])

\* caller c is left waiting for its one synchronous producer invocation
AwaitsProducer(c) ==
  /\ call'[c].pc = "fresh"
  /\ call'[c].calls = call[c].calls + 1
  /\ ret' = NoRet

\* the producer's answer Ok(v), v acceptable, is what the call returns
ReturnsProduced(c) ==
  \A v \in Values :
    (FreshOk(c, v, TRUE) /\ Accepts(call[c].opts, v))
      => /\ ret'.kind = "Ok" /\ ret'.caller = c /\ ret'.value = v
         /\ ret'.calls = call[c].calls
         /\ call'[c] = IdleCall

\* C1: a call without force_fresh that finds an entry unexpired at the
\* call's time, the validator absent or accepting, returns the stored value,
\* invokes no producer, dispatches no refresh and leaves storage unchanged.
C1_CacheHit ==
  [][\A c \in Callers :
       LET o == call[c].opts
           e == store[o.key]
       IN (/\ Looked(c)
           /\ ~o.force_fresh
           /\ e # NoEntry
           /\ Unexpired(e, call[c].now)
           /\ Accepts(o, e.value))
          => /\ ret'.kind = "Ok" /\ ret'.caller = c /\ ret'.value = e.value
             /\ ret'.calls = 0
             /\ call'[c] = IdleCall
             /\ NoRefreshDispatched
             /\ store' = store]_vars

C1_Witness ==
  /\ ret.kind = "Ok" /\ ret.path = "hit" /\ ret.calls = 0
  /\ store[ret.key] # NoEntry /\ store[ret.key].value = ret.value

C3_StaleWhileRevalidate ==
  [][\A c \in Callers :
       LET cl == call[c]
           o == cl.opts
           e == store[o.key]
       IN (/\ Looked(c)
           /\ e # NoEntry
           /\ Expired(e, cl.now)
           /\ o.stale_while_revalidate # NONE
           /\ cl.now < WindowEnd(e, o.stale_while_revalidate)
           /\ Accepts(o, e.value))
          => /\ ret'.kind = "Ok" /\ ret'.caller = c /\ ret'.value = e.value
             /\ ret'.calls = 1
             /\ OneRefreshDispatched(o.key, o.ttl)
             /\ call'[c] = IdleCall
             /\ store' = store]_vars

C3_Witness ==
  /\ ret.kind = "Ok" /\ ret.path = "stale" /\ ret.calls = 1
  /\ \E i \in 1..Len(task) : task[i].key = ret.key

\* C4: a refresh dispatched by a stale-serving call, its producer
\* succeeding, is eventually written: storage then holds the refreshed value
\* under the key, stamped with the time of the write and the spawning call's
\* ttl; a call that then finds this entry unexpired returns the refreshed
\* value and invokes no producer of its own.
C4_RoundTrip ==
  /\ \A k \in Keys, d \in TtlOpts :
       (\E i \in 1..Len(task) : task[i] = [key |-> k, ttl |-> d])
         ~> (/\ ret.kind = "Refreshed" /\ ret.key = k /\ ret.ttl = d
             /\ store[k] = [value |-> ret.value,
                            metadata |-> [created_time |-> now, ttl |-> d]])
  /\ [][\A c \in Callers :
          LET o == call[c].opts
              e == store[o.key]
          IN (Looked(c) /\ e # NoEntry /\ Unexpired(e, call[c].now))
             => /\ ret'.kind = "Ok" /\ ret'.value = e.value
                /\ ret'.calls = 0]_vars

\* an entry without ttl is the write of a refresh (the synchronous path
\* writes a positive ttl only): here a later call is served it
C4_Witness ==
  /\ ret.kind = "Ok" /\ ret.path = "hit" /\ ret.calls = 0
  /\ store[ret.key] # NoEntry
  /\ store[ret.key].metadata.ttl = NONE
  /\ store[ret.key].value = ret.value

\* C5: the end of the SWR window is exclusive: on an expired entry with
\* now >= created_time + ttl + swr (equality included) nothing stale is
\* served and no refresh is dispatched; the producer is invoked
\* synchronously and its value returned.
C5_WindowEndExclusive ==
  [][\A c \in Callers :
       LET cl == call[c]
           o == cl.opts
           e == store[o.key]
       IN /\ (/\ Looked(c)
              /\ e # NoEntry
              /\ Expired(e, cl.now)
              /\ o.stale_while_revalidate # NONE
              /\ cl.now >= WindowEnd(e, o.stale_while_revalidate))
             => /\ AwaitsProducer(c) /\ call'[c].calls = 1
                /\ NoRefreshDispatched
                /\ store' = store
          /\ ReturnsProduced(c)]_vars

\* a call waits for its producer on an entry whose window ended exactly at
\* the call's now
C5_Witness ==
  \E c \in Callers :
    /\ call[c].pc = "fresh" /\ call[c].calls = 1
    /\ ~call[c].opts.force_fresh
    /\ call[c].opts.stale_while_revalidate # NONE
    /\ store[call[c].opts.key] # NoEntry
    /\ Expired(store[call[c].opts.key], call[c].now)
    /\ call[c].now = WindowEnd(store[call[c].opts.key],
                               call[c].opts.stale_while_revalidate)
    /\ task = <<>>

\* the step is the entry of a call by c
Called(c) == call[c].pc = "idle" /\ call'[c].pc # "idle"

\* C6: with force_fresh the call invokes the producer synchronously without
\* reading storage first, whatever storage holds, dispatches no refresh and
\* returns the producer's value.
C6_ForceFresh ==
  [][\A c \in Callers :
       /\ (Called(c) /\ call'[c].opts.force_fresh)
            => /\ call'[c].pc = "fresh" /\ call'[c].calls = 1
               /\ ret' = NoRet
               /\ NoRefreshDispatched
               /\ store' = store
       /\ Looked(c) => ~call[c].opts.force_fresh
       /\ (call[c].pc = "fresh" /\ call[c].opts.force_fresh)
            => /\ ReturnsProduced(c)
               /\ Answered(c) => NoRefreshDispatched]_vars

\* a forced call waits for its producer while storage holds an unexpired
\* entry its validator accepts
C6_Witness ==
  \E c \in Callers :
    /\ call[c].pc = "fresh" /\ call[c].opts.force_fresh
    /\ call[c].opts.check_value # "none"
    /\ store[call[c].opts.key] # NoEntry
    /\ Unexpired(store[call[c].opts.key], call[c].now)
    /\ Accepts(call[c].opts, store[call[c].opts.key].value)

\* C7: when the awaited producer fails and fallback_to_cache is set, storage
\* is read again and an entry that is present and accepted is returned as
\* success, however long ago it expired; with no entry, a rejected entry or
\* no fallback_to_cache the producer's error is returned.
C7_FallbackToCache ==
  [][\A c \in Callers : \A e \in ProducerErrors :
       LET o == call[c].opts
           en == store[o.key]
       IN FreshErr(c, e)
          => /\ call'[c] = IdleCall
             /\ IF /\ o.fallback_to_cache
                   /\ en # NoEntry
                   /\ Accepts(o, en.value)
                  THEN /\ ret'.kind = "Ok" /\ ret'.caller = c
                       /\ ret'.value = en.value
                  ELSE /\ ret'.kind = "Err" /\ ret'.caller = c
                       /\ ret'.err = e]_vars

\* a fallback served an entry that expired before the SWR window of one tick
\* has ended
C7_Witness ==
  /\ ret.kind = "Ok" /\ ret.path = "fallback"
  /\ store[ret.key] # NoEntry
  /\ store[ret.key].value = ret.value
  /\ Expired(store[ret.key], now)
  /\ now >= WindowEnd(store[ret.key], 1)

\* C8 as claimed: an unmasked producer failure reaches the caller as a
\* FreshValueError carrying the producer's message.
C8_AsClaimed ==
  (ret.kind = "Err" /\ ret.path = "failed")
    => /\ ret.err.kind = "FreshValueError"
       /\ ret.err.msg \in {e.msg : e \in ProducerErrors}

\* C8: an unmasked failure of the awaited producer reaches the caller as the
\* very error the producer returned, kind and message unchanged, and no step
\* of the call has written to storage.
C8_ProducerErrorPropagates ==
  [][\A c \in Callers :
       /\ \A e \in ProducerErrors :
            LET o == call[c].opts
                en == store[o.key]
            IN (/\ FreshErr(c, e)
                /\ ~(/\ o.fallback_to_cache
                     /\ en # NoEntry
                     /\ Accepts(o, en.value)))
               => /\ ret'.kind = "Err" /\ ret'.caller = c
                  /\ ret'.err.kind = e.kind /\ ret'.err.msg = e.msg
                  /\ store' = store
       /\ (Called(c) \/ Looked(c)) => store' = store]_vars

\* a producer's error of kind Other reached the caller
C8_Witness ==
  /\ ret.kind = "Err" /\ ret.path = "failed"
  /\ ret.err = [kind |-> "Other", msg |-> "db down"]

\* C9: the validator rejecting a stored value never ends the call with an
\* error: on an unexpired, rejected entry the same call invokes the producer
\* and returns its accepted value.
C9_RejectedStoredValue ==
  [][\A c \in Callers :
       LET cl == call[c]
           o == cl.opts
           e == store[o.key]
       IN /\ Looked(c) => ret'.kind # "Err"
          /\ (/\ Looked(c)
              /\ e # NoEntry
              /\ Unexpired(e, cl.now)
              /\ ~Accepts(o, e.value))
             => /\ AwaitsProducer(c) /\ call'[c].calls = 1
                /\ store' = store
          /\ ReturnsProduced(c)]_vars

\* a call waits for its producer over an unexpired entry its validator
\* rejected
C9_Witness ==
  \E c \in Callers :
    /\ call[c].pc = "fresh" /\ call[c].calls = 1
    /\ ~call[c].opts.force_fresh
    /\ store[call[c].opts.key] # NoEntry
    /\ Unexpired(store[call[c].opts.key], call[c].now)
    /\ ~Accepts(call[c].opts, store[call[c].opts.key].value)

PurgeRead(k) ==
  /\ purge.pc = "idle" /\ purge'.pc = "set" /\ purge'.key = k
  /\ store[k] # NoEntry

\* the step is the end of a soft_purge of key k that wrote and succeeded
PurgeWrote(k) ==
  /\ purge.pc = "set" /\ purge'.pc = "idle" /\ purge.key = k
  /\ ret'.kind = "Purged" /\ ret'.result = "Ok"

\* soft_purge writes, and hands back, the entry it made of the one it read
WritesWhatItMade(k) ==
  PurgeWrote(k) => /\ store'[k] = purge.entry
                   /\ ret'.entry = purge.entry
                   /\ ret'.now = purge.now

\* C11: a soft_purge that succeeds on a stored entry leaves under the key an
\* entry with the value it read and ttl = 0, expired at the purge time and at
\* every later time, whatever ttl (none included) and created_time it had.
C11_PurgedIsExpired ==
  [][\A k \in Keys :
       /\ PurgeRead(k)
            => /\ purge'.now = now
               /\ purge'.entry.value = store[k].value
               /\ purge'.entry.metadata.ttl = 0
               /\ \A t \in now..(MaxTime + 1) : Expired(purge'.entry, t)
       /\ WritesWhatItMade(k)]_vars

\* a purge has just written back the entry it read, with ttl = 0
C11_Witness ==
  /\ ret.kind = "Purged" /\ ret.result = "Ok"
  /\ ret.entry # NoEntry
  /\ store[ret.key] = ret.entry
  /\ store[ret.key].metadata.ttl = 0
  /\ \A t \in ret.now..MaxTime : Expired(store[ret.key], t)

\* C12: soft_purge of an entry not yet expired under its old ttl at the purge
\* time leaves created_time as it was; only ttl changes, to 0.
C12_AsClaimed ==
  [][\A k \in Keys :
       (PurgeRead(k) /\ Unexpired(store[k], now))
         => /\ purge'.entry.metadata.created_time
                 = store[k].metadata.created_time
            /\ purge'.entry.metadata.ttl = 0
            /\ purge'.entry.value = store[k].value]_vars

\* C13: soft_purge of an entry already expired under its old ttl at the purge
\* time sets created_time to the purge time; a call with SWR duration swr that
\* finds the entry at a time t, created_time <= t < created_time + swr, is
\* served the stale value.
C13_PurgeOfExpired ==
  [][/\ \A k \in Keys :
          /\ (PurgeRead(k) /\ Expired(store[k], now))
               => purge'.entry = [value |-> store[k].value,
                                  metadata |-> [created_time |-> now,
                                                ttl |-> 0]]
          /\ WritesWhatItMade(k)
     /\ \A c \in Callers :
          LET cl == call[c]
              o == cl.opts
              e == store[o.key]
          IN (/\ Looked(c)
              /\ e # NoEntry
              /\ e.metadata.ttl = 0
              /\ o.stale_while_revalidate # NONE
              /\ e.metadata.created_time <= cl.now
              /\ cl.now < e.metadata.created_time + o.stale_while_revalidate
              /\ Accepts(o, e.value))
             => /\ ret'.kind = "Ok" /\ ret'.caller = c
                /\ ret'.value = e.value
                /\ call'[c] = IdleCall]_vars

\* a purge has read an entry that expired under its ttl of 2 some time
\* before, and is about to write it back with created_time the purge time
C13_Witness ==
  /\ purge.pc = "set"
  /\ store[purge.key] # NoEntry
  /\ store[purge.key].metadata.ttl = 2
  /\ store[purge.key].metadata.created_time + 2 < purge.now
  /\ purge.entry = [value |-> store[purge.key].value,
                    metadata |-> [created_time |-> purge.now, ttl |-> 0]]

\* C14: soft_purge of a key with no stored entry returns Ok, issues no set
\* and leaves storage as it was.
C14_PurgeOfAbsent ==
  [][\A po \in SoftPurgeOptions(Keys) :
       (PurgeGet(po) /\ store[po.key] = NoEntry)
         => /\ ret'.kind = "Purged" /\ ret'.key = po.key
            /\ ret'.result = "Ok"
            /\ purge' = IdlePurge
            /\ store' = store]_vars

C14_Witness ==
  /\ ret.kind = "Purged" /\ ret.result = "Ok"
  /\ ret.entry = NoEntry
  /\ store[ret.key] = NoEntry

InFlight(k) == {i \in 1..Len(task) : task[i].key = k}

\* C16: after a soft purge, whatever number of calls find the purged entry
\* inside their SWR window before a refresh has written back, at most one
\* background producer invocation is started for the key.  Where nothing
\* expires but through a purge of a fresh entry, every refresh in flight was
\* started on the purged entry and none has written back: there is at most
\* one.
C16_AsClaimed ==
  \A k \in Keys : Cardinality(InFlight(k)) <= 1

DefaultStaleWhileRevalidate == 2

\* C19: after a soft purge that names no stale_while_revalidate (every purge
\* is also the purge that names none, its steps being the same), the purged
\* entry is served stale for the 300 seconds that follow: a call that reads
\* it at a time t, purge time <= t < purge time + 300s, validator absent or
\* accepting, is returned the purged value.
C19_AsClaimed ==
  [][\A c \in Callers :
       LET cl == call[c]
           o == cl.opts
       IN (/\ ret.kind = "Purged" /\ ret.result = "Ok"
           /\ ret.entry # NoEntry
           /\ Looked(c)
           /\ o.key = ret.key
           /\ ret.now <= cl.now
           /\ cl.now < ret.now + DefaultStaleWhileRevalidate
           /\ Accepts(o, ret.entry.value))
          => /\ ret'.kind = "Ok" /\ ret'.caller = c
             /\ ret'.value = ret.entry.value]_vars

\* C20: key isolation.  A call, a background refresh and a soft purge change
\* storage under their own key only, the entry under every other key staying
\* as it was, and a value a call returns from storage is the one stored under
\* the call's key; with one producer per key, no key ever holds or returns
\* the value of the other.
C20_KeyIsolation ==
  [][/\ \A c \in Callers :
          /\ (Called(c) \/ Looked(c)) => store' = store
          /\ Looked(c) /\ ret'.kind = "Ok"
               => /\ store[call[c].opts.key] # NoEntry
                  /\ ret'.value = store[call[c].opts.key].value
                  /\ ret'.key = call[c].opts.key
          /\ Answered(c)
               => \A k \in Keys \ {call[c].opts.key} : store'[k] = store[k]
     /\ ret'.kind = "Refreshed"
          => \A k \in Keys \ {ret'.key} : store'[k] = store[k]
     /\ \A k \in Keys :
          /\ PurgeRead(k) => store' = store
          /\ (purge.pc = "set" /\ purge.key = k /\ purge'.pc = "idle")
               => \A k2 \in Keys \ {k} : store'[k2] = store[k2]
     /\ \A k \in Keys :
          store'[k] # NoEntry => store'[k].value = KeyValue[k]
     /\ ret'.kind = "Ok" => ret'.value = KeyValue[ret'.key]]_vars

\* a call on one key was served that key's entry while the other key holds
\* an entry of its own, purged
C20_Witness ==
  /\ ret.kind = "Ok" /\ ret.path \in {"hit", "stale"} /\ ret.key = "k1"
  /\ ret.value = "A"
  /\ store["k1"] # NoEntry /\ store["k2"] # NoEntry
  /\ store["k2"].value = "B"
  /\ store["k2"].metadata.ttl = 0

\* C21: with the call's ttl absent or zero, the synchronous path returns the
\* produced value the validator accepts and writes nothing: what is stored
\* for the key, if anything, is what was stored before.
C21_NoTtlNoWrite ==
  [][\A c \in Callers : \A v \in Values :
       LET o == call[c].opts
       IN (/\ FreshOk(c, v, TRUE)
           /\ Accepts(o, v)
           /\ (o.ttl = NONE \/ o.ttl = 0))
          => /\ ret'.kind = "Ok" /\ ret'.caller = c /\ ret'.value = v
             /\ call'[c] = IdleCall
             /\ store' = store]_vars

\* a call returned the value B it produced while storage keeps the entry A
\* it held before: set never failing, the call's ttl was absent or zero
C21_Witness ==
  /\ ret.kind = "Ok" /\ ret.path = "fresh" /\ ret.value = "B"
  /\ store[ret.key] # NoEntry
  /\ store[ret.key].value = "A"

\* C22: a cache.set that fails on the synchronous path is swallowed: the
\* call returns Ok with the value produced, storage as it was.  A cache.set
\* that fails inside a background refresh surfaces nowhere: no call is
\* touched, nothing is returned to anyone, storage is as it was.
C22_SetFailureSwallowed ==
  [][/\ \A c \in Callers : \A v \in Values :
          LET o == call[c].opts
          IN (/\ FreshOk(c, v, FALSE)
              /\ Accepts(o, v)
              /\ o.ttl # NONE /\ o.ttl > 0)
             => /\ ret'.kind = "Ok" /\ ret'.caller = c /\ ret'.value = v
                /\ call'[c] = IdleCall
                /\ store' = store
     /\ \A i \in 1..Len(task) : \A v \in Values :
          RefreshOk(i, v, FALSE)
            => /\ store' = store
               /\ call' = call
               /\ purge' = purge
               /\ ret'.kind \notin {"Ok", "Err", "Purged", "Refreshed"}]_vars

\* a call that missed returned the value it produced although its cache.set
\* (every call here configures ttl 2) failed: the key is still not stored
C22_Witness ==
  /\ ret.kind = "Ok" /\ ret.path = "fresh" /\ ret.calls = 1
  /\ store[ret.key] = NoEntry

\* C23: a cache.set that fails inside soft_purge is returned to the caller
\* of soft_purge as its error, and the stored entry keeps the metadata it
\* had.
C23_PurgeSetFailure ==
  [][(purge.pc = "set" /\ PurgeSet(FALSE))
       => /\ ret'.kind = "Purged" /\ ret'.key = purge.key
          /\ ret'.result = "Err"
          /\ store' = store
          /\ purge' = IdlePurge]_vars

\* a purge has just failed over an entry that still has its ttl of 2
C23_Witness ==
  /\ ret.kind = "Purged" /\ ret.result = "Err"
  /\ store[ret.key] # NoEntry
  /\ store[ret.key].metadata.ttl = 2

\* C24: asked about a metadata at an instant, is_expired answers true
\* exactly when a ttl is present and the instant is at or after
\* created_time + ttl; the boundary instant itself is expired, a metadata
\* without ttl never is, and the free function of lib.rs and the method of
\* CacheMetadata give the same answer on every input.
C24_ExpiryPredicate ==
  ret.kind = "Expiry"
    => LET created == ret.metadata.created_time
           ttl == ret.metadata.ttl
       IN /\ (ret.free = "true") <=> (ttl # NONE /\ ret.now >= created + ttl)
          /\ (ttl # NONE /\ ret.now = created + ttl) => ret.free = "true"
          /\ ttl = NONE => ret.free = "false"
          /\ ret.method = ret.free

\* both predicates were asked at the very instant created_time + ttl of an
\* entry with a positive ttl, created after time zero
C24_Witness ==
  /\ ret.kind = "Expiry"
  /\ ret.metadata.ttl # NONE /\ ret.metadata.ttl > 0
  /\ ret.metadata.created_time > 0
  /\ ret.now = ret.metadata.created_time + ret.metadata.ttl
  /\ ret.method = "true"

\* C25: reads are idempotent.  The first call, missing, invokes the
\* producer once, returns its value and stores it under the call's ttl
\* stamped with the call's time; a call entered at once judges the entry at
\* the current time and, finding it unexpired and accepted, returns that
\* same value with no producer invocation and leaves storage as it is, so
\* that the calls together have invoked the producer exactly once.
C25_IdempotentReads ==
  [][\A c \in Callers :
       LET cl == call[c]
           o == cl.opts
           e == store[o.key]
       IN /\ \A v \in Values :
               (/\ FreshOk(c, v, TRUE)
                /\ Accepts(o, v)
                /\ o.ttl # NONE /\ o.ttl > 0)
                 => /\ ret'.kind = "Ok" /\ ret'.value = v
                    /\ ret'.calls = cl.calls
                    /\ store'[o.key] # NoEntry
                    /\ store'[o.key].value = ret'.value
                    /\ store'[o.key].metadata
                         = [created_time |-> cl.now, ttl |-> o.ttl]
          /\ (Called(c) /\ ~call'[c].opts.force_fresh)
               => /\ call'[c].now = now
                  /\ call'[c].calls = 0
                  /\ call'[c].pc = "get"
                  /\ store' = store
          /\ (/\ Looked(c)
              /\ e # NoEntry
              /\ Unexpired(e, cl.now)
              /\ Accepts(o, e.value))
               => /\ ret'.kind = "Ok" /\ ret'.caller = c
                  /\ ret'.value = e.value
                  /\ ret'.calls = 0
                  /\ call'[c] = IdleCall
                  /\ store' = store
          /\ (Looked(c) /\ e = NoEntry)
               => /\ call'[c].pc = "fresh" /\ call'[c].calls = 1
                  /\ ret' = NoRet]_vars

\* the second call was served, with no producer invocation, the entry a
\* first call entered in the same tick has produced and stored
C25_Witness ==
  /\ ret.kind = "Ok" /\ ret.path = "hit" /\ ret.calls = 0
  /\ store[ret.key] # NoEntry
  /\ store[ret.key].value = ret.value
  /\ store[ret.key].metadata = [created_time |-> now, ttl |-> 2]
  /\ now > 0

\* the outcomes a call can report: a value, or one error
SingleOutcome(r) ==
  \/ r.kind = "Ok" /\ r.value \in Values /\ r.err = [kind |-> "none", msg |-> ""]
  \/ /\ r.kind = "Err"
     /\ \/ r.err \in ProducerErrors
        \/ r.err.kind = "ValidationError"

\* C26: every call whose awaited producer answers ends, and ends with
\* exactly one outcome: the step that ends the call reports a value or one
\* error to its caller, no call ends without a report and nothing is
\* reported but by the step that ends a call.
C26_OneOutcome ==
  /\ \A c \in {"c1"} :
       (call[c].pc # "idle")
         ~> (call[c].pc = "idle" /\ ret.kind \in {"Ok", "Err"}
             /\ ret.caller = c)
  /\ [][\A c \in Callers :
          /\ (call[c].pc # "idle" /\ call'[c].pc = "idle")
               => /\ ret'.kind \in {"Ok", "Err"} /\ ret'.caller = c
                  /\ SingleOutcome(ret')
          /\ (ret'.kind \in {"Ok", "Err"} /\ ret'.caller = c)
               => (call[c].pc # "idle" /\ call'[c].pc = "idle")]_vars

\* a call ended with the producer's error while two refreshes dispatched by
\* earlier calls are still in flight
C26_Witness ==
  /\ ret.kind = "Err" /\ ret.path = "failed"
  /\ ret.err \in ProducerErrors
  /\ call[ret.caller].pc = "idle"
  /\ Len(task) = 2

\* C27 as claimed: no invocation of cachified has the producer called more
\* than once.
C27_AsClaimed ==
  /\ \A c \in Callers : call[c].pc # "idle" => call[c].calls <= 1
  /\ ret.kind \in {"Ok", "Err"} => ret.calls <= 1

\* C27: an invocation of cachified awaits the producer at most once; a call
\* that dispatches a background refresh calls the producer once more, for
\* the refresh.  The producer is called at most twice per invocation, and
\* twice exactly when the validator rejects the stale value of an expired
\* entry inside the SWR window.
C27_ProducerCalls ==
  [][\A c \in Callers :
       LET cl == call[c]
           o == cl.opts
           e == store[o.key]
           dispatched == Len(task') - Len(task)
           awaited == IF call'[c].pc = "fresh" THEN 1 ELSE 0
           counted == IF call'[c].pc = "idle" THEN ret'.calls
                      ELSE call'[c].calls
           staleRejected ==
             /\ e # NoEntry
             /\ Expired(e, cl.now)
             /\ o.stale_while_revalidate # NONE
             /\ cl.now < WindowEnd(e, o.stale_while_revalidate)
             /\ ~Accepts(o, e.value)
       IN /\ Called(c)
               => /\ dispatched = 0
                  /\ call'[c].calls = awaited
                  /\ awaited = 1 <=> call'[c].opts.force_fresh
          /\ Looked(c)
               => /\ cl.calls = 0
                  /\ dispatched \in {0, 1} /\ awaited \in {0, 1}
                  /\ counted = dispatched + awaited
                  /\ counted = 2 <=> staleRejected
          /\ cl.pc = "fresh"
               => /\ dispatched = 0
                  /\ \/ call'[c] = cl
                     \/ /\ call'[c].pc = "idle"
                        /\ ret'.kind \in {"Ok", "Err"} /\ ret'.caller = c
                        /\ ret'.calls = cl.calls]_vars

\* a call ended after two calls of the producer: one for the refresh it
\* dispatched on a stale entry its validator rejected, one it awaited
C27_Witness ==
  /\ ret.kind \in {"Ok", "Err"} /\ ret.calls = 2
  /\ call[ret.caller].pc = "idle"
  /\ \E i \in 1..Len(task) : task[i].key = ret.key

\* a background refresh is in flight
Hanging == Len(task) > 0

\* C28: serving a stale value does not wait for the producer: the lookup
\* that dispatches the refresh is the step that returns the stale value,
\* and the refresh stays in flight.  With refreshes that never complete,
\* every call on either key and every soft_purge, be it on the key of a
\* hanging refresh or on another, can still be entered, and those in
\* progress end with their outcome.
C28_HangingRefresh ==
  /\ [][/\ Len(task') >= Len(task)
        /\ \A c \in Callers :
             LET cl == call[c]
                 o == cl.opts
                 e == store[o.key]
             IN (/\ Looked(c)
                 /\ e # NoEntry
                 /\ Expired(e, cl.now)
                 /\ o.stale_while_revalidate # NONE
                 /\ cl.now < WindowEnd(e, o.stale_while_revalidate)
                 /\ Accepts(o, e.value))
                => /\ ret'.kind = "Ok" /\ ret'.caller = c
                   /\ ret'.value = e.value
                   /\ call'[c] = IdleCall
                   /\ OneRefreshDispatched(o.key, o.ttl)]_vars
  /\ [](Hanging
          => /\ \A k \in Keys :
                  call["c1"].pc = "idle"
                    => ENABLED Call("c1", [key |-> k, ttl |-> 2,
                                           stale_while_revalidate |-> NONE,
                                           force_fresh |-> FALSE,
                                           fallback_to_cache |-> FALSE,
                                           check_value |-> "none"])
             /\ purge.pc = "idle" => ENABLED SoftPurgeHang)
  /\ (Hanging /\ call["c1"].pc # "idle")
       ~> (/\ Hanging /\ call["c1"].pc = "idle"
           /\ ret.kind \in {"Ok", "Err"} /\ ret.caller = "c1")
  /\ (Hanging /\ purge.pc = "set")
       ~> (Hanging /\ purge.pc = "idle" /\ ret.kind = "Purged")

\* with a refresh of k1 hanging since an earlier call, a call on k2 has
\* fetched and returned
C28_Witness ==
  /\ ret.kind = "Ok" /\ ret.path = "fresh" /\ ret.key = "k2"
  /\ \A i \in 1..Len(task) : task[i].key = "k1"
  /\ Len(task) = 2

\* C29: a background refresh whose producer fails writes nothing and
\* reports nothing: its end leaves storage, every call and every purge as
\* they were, as its dispatch left storage.  A call without SWR that then
\* finds the entry still expired awaits the producer itself.
C29_FailedRefresh ==
  [][/\ \A i \in 1..Len(task) :
          RefreshErr(i)
            => /\ store' = store
               /\ call' = call
               /\ purge' = purge
               /\ ret'.kind \notin {"Ok", "Err", "Refreshed", "Purged"}
               /\ Len(task') = Len(task) - 1
     /\ \A c \in Callers :
          LET cl == call[c]
              o == cl.opts
              e == store[o.key]
          IN /\ Looked(c) => store' = store
             /\ (/\ Looked(c)
                 /\ e # NoEntry
                 /\ Expired(e, cl.now)
                 /\ o.stale_while_revalidate = NONE)
                => /\ AwaitsProducer(c) /\ call'[c].calls = 1
                   /\ NoRefreshDispatched]_vars

\* a refresh has just ended on its producer's failure and the entry it was
\* to renew is stored as before, expired
C29_Witness ==
  /\ ret.kind = "Dropped" /\ ret.why = "producer"
  /\ store[ret.key] # NoEntry
  /\ Expired(store[ret.key], now)
  /\ task = <<>>

\* C30: a background refresh whose producer succeeds writes {value,
\* created_time = the time of completion, ttl = the ttl of the call that
\* dispatched it} whatever the value (the validator is not asked) and
\* whatever is stored under the key at that moment, an entry with ttl = 0 or
\* an entry not yet expired included: the last writer wins.
C30_UnconditionalWrite ==
  [][\A i \in 1..Len(task) : \A v \in Values :
       RefreshOk(i, v, TRUE)
         => /\ store'[task[i].key]
                 = [value |-> v,
                    metadata |-> [created_time |-> now,
                                  ttl |-> task[i].ttl]]
            /\ \A k \in Keys \ {task[i].key} : store'[k] = store[k]
            /\ ret'.kind = "Refreshed" /\ ret'.value = v
            /\ call' = call]_vars

\* a refresh has just written the empty string, which no validator accepts,
\* while another refresh of the key is still in flight to overwrite it
C30_Witness ==
  /\ ret.kind = "Refreshed" /\ ret.value = ""
  /\ store[ret.key]
       = [value |-> "",
          metadata |-> [created_time |-> now, ttl |-> ret.ttl]]
  /\ \E i \in 1..Len(task) : task[i].key = ret.key

\* the entry caller c reads is expired, inside the SWR window of the call,
\* and rejected by the call's validator
StaleRejected(c) ==
  LET cl == call[c]
      o == cl.opts
      e == store[o.key]
  IN /\ e # NoEntry
     /\ Expired(e, cl.now)
     /\ o.stale_while_revalidate # NONE
     /\ cl.now < WindowEnd(e, o.stale_while_revalidate)
     /\ ~Accepts(o, e.value)

\* C31: inside the SWR window the refresh is dispatched before the stale
\* value is validated.  When the validator rejects the stale value the
\* lookup has dispatched one refresh and leaves the call awaiting a producer
\* invocation of its own: two invocations, one of each kind.  The call
\* returns what that producer answers, and call and refresh do not touch
\* one another: the answer to the call ends no refresh, and a refresh that
\* completes writes its entry and leaves the call as it is.
C31_RejectedStale ==
  [][\A c \in Callers :
       LET cl == call[c]
           o == cl.opts
       IN /\ (Looked(c) /\ StaleRejected(c))
               => /\ OneRefreshDispatched(o.key, o.ttl)
                  /\ call'[c].pc = "fresh"
                  /\ call'[c].calls = 2
                  /\ ret' = NoRet
                  /\ store' = store
          /\ (cl.pc = "fresh" /\ cl.calls = 2)
               => /\ \A v \in Values :
                       (FreshOk(c, v, TRUE) /\ Accepts(o, v))
                         => /\ ret'.kind = "Ok" /\ ret'.value = v
                            /\ ret'.calls = 2
                  /\ \A e \in ProducerErrors :
                       (FreshErr(c, e) /\ ~o.fallback_to_cache)
                         => /\ ret'.kind = "Err" /\ ret'.err = e
                            /\ ret'.calls = 2
                  /\ Answered(c) => NoRefreshDispatched
                  /\ \A i \in 1..Len(task) : \A v \in Values :
                       RefreshOk(i, v, TRUE)
                         => /\ call' = call
                            /\ store'[task[i].key].value = v
                  /\ call'[c].pc # "idle" => call'[c].calls = 2]_vars

\* the refresh dispatched for a rejected stale value has just written while
\* the call that dispatched it still awaits its own producer
C31_Witness ==
  \E c \in Callers :
    /\ call[c].pc = "fresh" /\ call[c].calls = 2
    /\ ret.kind = "Refreshed" /\ ret.key = call[c].opts.key
    /\ store[ret.key].value = ret.value
    /\ task = <<>>

\* C34: an unexpired entry the validator rejects sends the call straight to
\* the awaited producer: no background refresh is dispatched, with an SWR
\* window configured as without.
C34_RejectedUnexpired ==
  [][\A c \in Callers :
       LET cl == call[c]
           o == cl.opts
           e == store[o.key]
       IN (/\ Looked(c)
           /\ e # NoEntry
           /\ Unexpired(e, cl.now)
           /\ ~Accepts(o, e.value))
          => /\ NoRefreshDispatched
             /\ call'[c].pc = "fresh"
             /\ call'[c].calls = 1
             /\ ret' = NoRet
             /\ store' = store]_vars

\* a call with an SWR window awaits its producer over an unexpired entry
\* its validator rejected, and no refresh is in flight
C34_Witness ==
  \E c \in Callers :
    /\ call[c].pc = "fresh" /\ call[c].calls = 1
    /\ call[c].opts.stale_while_revalidate # NONE
    /\ store[call[c].opts.key] # NoEntry
    /\ Unexpired(store[call[c].opts.key], call[c].now)
    /\ ~Accepts(call[c].opts, store[call[c].opts.key].value)
    /\ store[call[c].opts.key].metadata.created_time = call[c].now
    /\ task = <<>>

\* C32: the synchronous read-decide-write sequence is not atomic.  A call
\* that misses, or finds the entry expired with no SWR, awaits a producer of
\* its own also while another caller awaits one for the same key, and leaves
\* that caller as it is; when its producer answers it writes its entry over
\* whatever the key holds by then, an entry written after its read included,
\* so that the entry stored is that of the latest set.
C32_ReadDecideWrite ==
  [][\A c \in Callers :
       LET cl == call[c]
           o == cl.opts
           e == store[o.key]
       IN /\ (/\ Looked(c)
              /\ \/ e = NoEntry
                 \/ /\ e # NoEntry /\ Expired(e, cl.now)
                    /\ o.stale_while_revalidate = NONE)
             => /\ AwaitsProducer(c) /\ call'[c].calls = 1
                /\ store' = store
                /\ \A c2 \in Callers \ {c} : call'[c2] = call[c2]
          /\ \A v \in Values :
               (/\ FreshOk(c, v, TRUE)
                /\ Accepts(o, v)
                /\ o.ttl # NONE /\ o.ttl > 0)
                 => /\ store'[o.key]
                         = [value |-> v,
                            metadata |-> [created_time |-> cl.now,
                                          ttl |-> o.ttl]]
                    /\ \A c2 \in Callers \ {c} : call'[c2] = call[c2]]_vars

\* both callers missed and invoked their producers: c2 still awaits its
\* own although the key now holds A, unexpired at c2's time, which c1 wrote
\* after c2 had read; c2's set is the one to come last
C32_Witness ==
  /\ call["c2"].pc = "fresh" /\ call["c2"].calls = 1
  /\ call["c1"].pc = "idle"
  /\ ret.kind = "Ok" /\ ret.caller = "c1" /\ ret.path = "fresh"
  /\ store["k1"] # NoEntry
  /\ store["k1"].value = "A"
  /\ Unexpired(store["k1"], call["c2"].now)

\* C33: where every call configures the NonEmptyStringValidator, every
\* value a call returns as success is non-empty, whichever return statement
\* it comes from: cache hit, stale serve, fresh value or fallback to cache.
C33_SuccessIsValid ==
  (ret.kind = "Ok")
    => /\ ret.path \in {"hit", "stale", "fresh", "fallback"}
       /\ ret.value # ""

\* the producer failed and the call fell back to a stored value that is not
\* empty, over an entry expired beyond any SWR window
C33_Witness ==
  /\ ret.kind = "Ok" /\ ret.path = "fallback"
  /\ ret.value # ""
  /\ store[ret.key] # NoEntry
  /\ store[ret.key].value = ret.value
  /\ Expired(store[ret.key], now)

\* C35: soft_purge is a read-modify-write that is not atomic.  Between its
\* get and its set a synchronous write or a background refresh stores its
\* entry and leaves the purge with the copy it read; the set of the purge
\* then writes that copy, the value read and ttl = 0, over whatever the key
\* holds, and the newer value is lost.
C35_PurgeOverwrites ==
  [][/\ \A k \in Keys :
          PurgeRead(k) => /\ purge'.entry.value = store[k].value
                          /\ purge'.entry.metadata.ttl = 0
                          /\ store' = store
     /\ purge.pc = "set"
          => /\ \A c \in Callers : \A v \in Values :
                  FreshOk(c, v, TRUE) => purge' = purge
             /\ \A i \in 1..Len(task) : \A v \in Values :
                  RefreshOk(i, v, TRUE)
                    => /\ purge' = purge
                       /\ store'[task[i].key].value = v
             /\ PurgeSet(TRUE)
                  => /\ store'[purge.key] = purge.entry
                     /\ ret'.kind = "Purged" /\ ret'.result = "Ok"]_vars

\* a refresh has just stored B under the key while a soft_purge that read A
\* is about to set: its copy, A with ttl = 0, replaces B
C35_Witness ==
  /\ purge.pc = "set"
  /\ purge.entry.value = "A" /\ purge.entry.metadata.ttl = 0
  /\ ret.kind = "Refreshed" /\ ret.key = purge.key /\ ret.value = "B"
  /\ store[purge.key] # NoEntry
  /\ store[purge.key].value = "B"

\* C36: a background refresh that succeeds writes its entry whatever the
\* ttl of the call that dispatched it, absent or zero included, where the
\* synchronous path skips the write.  Written with no ttl the entry is
\* expired at no time and served to every later call; written with ttl zero
\* it is expired at the time of the write and never served as fresh.
C36_RefreshWritesAnyTtl ==
  [][/\ \A c \in Callers :
          LET cl == call[c]
              o == cl.opts
              e == store[o.key]
          IN /\ (Looked(c) /\ task' # task)
                  => OneRefreshDispatched(o.key, o.ttl)
             /\ \A v \in Values :
                  (/\ FreshOk(c, v, TRUE)
                   /\ (o.ttl = NONE \/ o.ttl = 0))
                    => store' = store
             /\ (Looked(c) /\ e # NoEntry /\ e.metadata.ttl = NONE)
                  => /\ ret'.kind = "Ok" /\ ret'.value = e.value
                     /\ ret'.calls = 0
             /\ (/\ Looked(c) /\ e # NoEntry /\ e.metadata.ttl = 0
                 /\ e.metadata.created_time <= cl.now)
                  => ~(ret'.kind = "Ok" /\ ret'.calls = 0)
     /\ \A i \in 1..Len(task) : \A v \in Values :
          LET k == task[i].key
              d == task[i].ttl
          IN RefreshOk(i, v, TRUE)
               => /\ store'[k] # NoEntry
                  /\ store'[k].value = v
                  /\ store'[k].metadata.ttl = d
                  /\ d = NONE
                       => \A t \in 0..(MaxTime + 1) : Unexpired(store'[k], t)
                  /\ d = 0
                       => \A t \in now..(MaxTime + 1) : Expired(store'[k], t)]_vars

\* a refresh dispatched by a call with ttl zero has just written: the entry
\* is stored, and expired already
C36_Witness ==
  /\ ret.kind = "Refreshed" /\ ret.ttl = 0
  /\ store[ret.key] # NoEntry
  /\ store[ret.key].value = ret.value
  /\ store[ret.key].metadata = [created_time |-> now, ttl |-> 0]
  /\ Expired(store[ret.key], now)

\* the branch the lookup of caller c takes in this step
BranchTaken(c) ==
  [out |-> IF call'[c].pc = "fresh" THEN "fresh" ELSE ret'.path,
   spawn |-> task' # task]

PurgeSetStep == purge.pc = "set" /\ purge'.pc = "idle"

\* C38 as claimed: no step removes an entry, and no step of soft_purge
\* changes the value stored under a key.
C38_AsClaimed ==
  [][\A k \in Keys :
       store[k] # NoEntry
         => /\ store'[k] # NoEntry
            /\ (PurgeSetStep \/ PurgeRead(k))
                 => store'[k].value = store[k].value]_vars

\* C38: no step of cachified, of a background refresh or of soft_purge
\* removes an entry: a key that is present stays present.  soft_purge
\* writes back the value it read: its get changes nothing, and its set
\* leaves the stored value as it is unless another writer has stored a new
\* value since the get, which the set replaces with the value read.
C38_NeverRemoved ==
  [][\A k \in Keys :
       store[k] # NoEntry
         => /\ store'[k] # NoEntry
            /\ PurgeRead(k) => /\ store' = store
                               /\ purge'.entry.value = store[k].value
            /\ (PurgeSetStep /\ purge.key = k)
                 => /\ store'[k].value \in {store[k].value, purge.entry.value}
                    /\ store[k].value = purge.entry.value
                         => store'[k].value = store[k].value
            /\ (PurgeSetStep /\ purge.key # k) => store'[k] = store[k]]_vars

\* a soft_purge has written back while a refresh of the key is in flight:
\* the key is present, with the value the purge read
C38_Witness ==
  /\ ret.kind = "Purged" /\ ret.result = "Ok"
  /\ ret.entry # NoEntry
  /\ store[ret.key] # NoEntry
  /\ store[ret.key].value = ret.entry.value
  /\ \E i \in 1..Len(task) : task[i].key = ret.key
====
